---- MODULE Spec2Model ----
(***************************************************************************)
(* A model of src/mem_utils.hpp: the reference-counted, growable           *)
(* mem_buffer, the cell its handles share (capacity, *ptr, ref_counter,    *)
(* mutex) and the mem_stream views that hold a handle copy.                *)
(*                                                                         *)
(* Threads run the member functions of handles; a member function is cut   *)
(* into steps at the places where another thread can observe or change     *)
(* the shared cell.  size_t arithmetic is modulo 2^SizeBits.  The heap is  *)
(* a map from block ids to blocks; a block keeps its size and the bytes    *)
(* that are not zero.                                                      *)
(***************************************************************************)
EXTENDS Integers, Sequences, FiniteSets, TLC

\* ------------------------------------------------------------------ bounds
\* width of size_t in the model
SizeBits == 16
\* number of handle objects (buffers and views) that are ever constructed
MaxHandles == 3
\* number of calls a client with one thread makes
MaxCalls == 3
\* number of calls a client with two threads makes
MaxConcCalls == 4

\* ------------------------------------------------------ program constants
\* size_t single_expand_size {16 * 1024}
DefaultExpandSize == 16384

\* ------------------------------------------------------------- input sets
Threads == {1, 2}
Handles == 1 .. MaxHandles
SizeMod == 2 ^ SizeBits
SizeMax == SizeMod - 1
\* capacities handed to the constructor (at least sizeof(char*): the
\* constructor stores a pointer in a block of `capacity` bytes)
Capacities == {8, 9}
\* lengths, offsets and positions handed to read, write and position
Lens == {1, 4}
Offs == {0, 7, SizeMax}
\* sizes handed to auto_expand_size
Incs == {1, 4, SizeMax}
\* first byte of the source of a write; the source is Src(v, len)
Vals == {1}
\* element widths of the views: uint8_t/char/char8_t, char16_t, char32_t
Steps == {1, 2, 4}
\* the inputs of the runs with two threads
ConcLens == {2}
ConcOffs == {0, 8, 2 * DefaultExpandSize}
ConcIncs == {1}
ConcVals == {1}
ConcSteps == {1}
\* element counts handed to forward, back, peek and eof of a view
ViewLens == {1, 3, 4}

\* ------------------------------------------------------- size_t arithmetic
Add(a, b) == (a + b) % SizeMod
Sub(a, b) == (a - b + SizeMod) % SizeMod
Mul(a, b) == (a * b) % SizeMod

\* the len bytes a write copies from: v, v+1, ... (never zero)
Src(v, len) == [i \in 1 .. len |-> v + i - 1]

VARIABLES
    capacity,     \* the shared size_t that every handle's `capacity` refers to
    ptr,          \* *ptr: the id of the block the indirection cell points at
    heap,         \* the allocated blocks: id -> [size, data]
    nalloc,       \* number of blocks allocated so far (ids are 1 .. nalloc)
    ref_counter,  \* *ref_counter
    mutex,        \* 0: free, t: locked by thread t, -1: destroyed
    released,     \* how often the destructor's release branch has run
    hd,           \* the handle objects: their own fields
    th,           \* the threads: the member function each runs and its locals
    out,          \* the call that returned last: its arguments and results
    ub,           \* "none", or the first undefined behaviour the program ran into
    halted,       \* the process has crashed
    conc,         \* TRUE: two client threads; FALSE: one
    calls         \* number of calls the client has made

vars == <<capacity, ptr, heap, nalloc, ref_counter, mutex, released, hd, th, out, ub, halted, conc, calls>>

\* the client: its threads and the arguments it passes
Clients == IF conc THEN Threads ELSE {1}
LensIn == IF conc THEN ConcLens ELSE Lens
OffsIn == IF conc THEN ConcOffs ELSE Offs
IncsIn == IF conc THEN ConcIncs ELSE Incs
ValsIn == IF conc THEN ConcVals ELSE Vals
StepsIn == IF conc THEN ConcSteps ELSE Steps
\* read(dst, len) and write(src, len), or also the calls with an offset
DfltIn == IF conc THEN {TRUE} ELSE BOOLEAN
CallsIn == IF conc THEN MaxConcCalls ELSE MaxCalls

\* ------------------------------------------------------------------- heap
\* a block's byte at offset i: the bytes not recorded in data are zero
Byte(b, i) == IF \E p \in b.data : p[1] = i THEN (CHOOSE p \in b.data : p[1] = i)[2] ELSE 0

\* memset(p, 0, size) of a fresh block
ZeroBlock(size) == [size |-> size, data |-> {}]

\* the len bytes at offset off of block b
Bytes(b, off, len) == [i \in 1 .. len |-> Byte(b, off + i - 1)]

\* block b after bytes were copied to offset off; only the part of the copy
\* that falls inside the block is kept
Store(b, off, bytes) ==
    LET hit == {off + i - 1 : i \in 1 .. Len(bytes)} \cap (0 .. b.size - 1)
    IN  [b EXCEPT !.data = {p \in b.data : p[1] \notin hit}
                           \cup {<<o, bytes[o - off + 1]>> : o \in {x \in hit : bytes[x - off + 1] # 0}}]

\* does [off, off + len) lie inside the block with id p?
InBlock(p, off, len) == p \in DOMAIN heap /\ off + len <= heap[p].size

\* ---------------------------------------------------------------- handles
NoHandle == [st |-> "none", pos |-> 0, ses |-> 0, ar |-> FALSE, ae |-> FALSE,
             view |-> FALSE, vpos |-> 0, eof_bit |-> FALSE, step |-> 0]

\* mem_buffer(size_t capacity, ...): pos(0), enable_auto_release(true),
\* enable_auto_expand(true), single_expand_size {16 * 1024}
NewBuffer == [st |-> "live", pos |-> 0, ses |-> DefaultExpandSize, ar |-> TRUE, ae |-> TRUE,
              view |-> FALSE, vpos |-> 0, eof_bit |-> FALSE, step |-> 0]

\* the growth increment a copy starts with: the copy constructor's initializer
\* list leaves single_expand_size to its default member initializer
CopiedExpandSize(src) == DefaultExpandSize

\* mem_buffer(mem_buffer const& buffer): the handle's own fields
CopyFields(src) == [st |-> "cons", pos |-> src.pos, ses |-> CopiedExpandSize(src),
                    ar |-> src.ar, ae |-> src.ae,
                    view |-> FALSE, vpos |-> 0, eof_bit |-> FALSE, step |-> 0]

\* a view that starts at the position of the handle it is built from
ViewFieldsAtSource(src, w) == [CopyFields(src) EXCEPT !.view = TRUE, !.step = w, !.vpos = src.pos]

\* mem_stream(Buffer& buffer) : pos(0), buffer(buffer), with step = sizeof(T)
ViewFields(src, w) == [CopyFields(src) EXCEPT !.view = TRUE, !.step = w]

\* ---------------------------------------------------------------- threads
Idle == [pc |-> "idle", op |-> "none", h |-> 0, n |-> 0, len |-> 0, off |-> 0, v |-> 0,
         dflt |-> FALSE, nb |-> 0, nc |-> 0, c0 |-> 0, d0 |-> {}]

\* what a returned call leaves in `out`
Returned(call, ret, dst) == [op |-> call.op, h |-> call.h, n |-> call.n, len |-> call.len,
                            off |-> call.off, v |-> call.v, dflt |-> call.dflt,
                            c0 |-> call.c0, d0 |-> call.d0, ret |-> ret, dst |-> dst]

\* a handle is used by at most one thread at a time
Busy(h) == \E t \in Threads : th[t].pc # "idle" /\ (th[t].h = h \/ th[t].n = h)
\* undefined behaviour either goes unnoticed or crashes the process, at
\* once or later
Running == ~halted
Usable(t, h) == Running /\ calls < CallsIn /\ t \in Clients /\ th[t].pc = "idle" /\ hd[h].st = "live" /\ ~Busy(h)

InitCell ==
    /\ capacity \in Capacities
    /\ ptr = 1
    /\ heap = [b \in {1} |-> ZeroBlock(capacity)]
    /\ nalloc = 1
    /\ ref_counter = 1
    /\ mutex = 0
    /\ released = 0
    /\ hd = [h \in Handles |-> IF h = 1 THEN NewBuffer ELSE NoHandle]
    /\ th = [t \in Threads |-> Idle]
    /\ out = Returned(Idle, "none", <<>>)
    /\ ub = "none"
    /\ halted = FALSE
    /\ calls = 0

\* one client thread
Init == InitCell /\ conc = FALSE
\* two client threads
InitConc == InitCell /\ conc = TRUE

\* mutex.lock() by thread t: blocks while another thread holds the lock.
\* Locking a destroyed mutex is undefined.
CanLock == mutex = 0 \/ mutex = -1
Locked(t) == IF mutex = -1 THEN -1 ELSE t
LockUb == IF mutex = -1 THEN "mutex_after_delete" ELSE "none"
\* the first of the faults a step runs into
Fault(fs) == IF ub # "none" THEN ub
             ELSE IF \E i \in 1 .. Len(fs) : fs[i] # "none"
             THEN fs[CHOOSE i \in 1 .. Len(fs) : fs[i] # "none" /\ \A j \in 1 .. i - 1 : fs[j] = "none"]
             ELSE "none"
\* mutex.unlock()
Unlocked == IF mutex = -1 THEN -1 ELSE 0

\* ------------------------------------------------------- copy construction
\* mem_buffer(mem_buffer const&), lines 204-205: the member initializers and
\* mutex.lock().  w = 0 copies a buffer; w > 0 is get_*_stream() building a
\* view of element width w around the copy.
CopyBegin(t, h, n, w) ==
    /\ Usable(t, h)
    /\ hd[n].st = "none"
    /\ \A m \in Handles : m < n => hd[m].st # "none"
    /\ ~hd[h].view
    /\ CanLock
    /\ mutex' = Locked(t)
    /\ ub' = Fault(<<LockUb>>)
    /\ hd' = [hd EXCEPT ![n] = IF w = 0 THEN CopyFields(hd[h]) ELSE ViewFields(hd[h], w)]
    /\ th' = [th EXCEPT ![t] = [Idle EXCEPT !.pc = "c_inc", !.op = "copy", !.h = h, !.n = n]]
    /\ UNCHANGED <<capacity, ptr, heap, nalloc, ref_counter, released, out, halted, conc>>
    /\ calls' = calls + 1

\* a copy constructor that does not count the new handle
NotIncremented(r) == r

\* line 209: ++(*this->ref_counter);
Incremented(r) == r + 1

\* lines 209-210: ++(*this->ref_counter); mutex.unlock();
CopyEnd(t) ==
    /\ Running
    /\ th[t].pc = "c_inc"
    /\ ref_counter' = Incremented(ref_counter)
    /\ mutex' = Unlocked
    /\ ub' = Fault(<<LockUb>>)
    /\ hd' = [hd EXCEPT ![th[t].n].st = "live"]
    /\ out' = Returned(th[t], "done", <<>>)
    /\ th' = [th EXCEPT ![t] = Idle]
    /\ UNCHANGED <<capacity, ptr, heap, nalloc, released, halted, conc, calls>>

\* ------------------------------------------------------------- destruction
\* line 343: --(*ref_counter);
Decremented(r) == r - 1

\* ~mem_buffer(), lines 342-343: mutex.lock(); --(*ref_counter);
DtorBegin(t, h) ==
    /\ Usable(t, h)
    /\ CanLock
    /\ mutex' = Locked(t)
    /\ ub' = Fault(<<LockUb>>)
    /\ ref_counter' = Decremented(ref_counter)
    /\ hd' = [hd EXCEPT ![h].st = "dying"]
    /\ th' = [th EXCEPT ![t] = [Idle EXCEPT !.pc = "d_unlock", !.op = "dtor", !.h = h]]
    /\ UNCHANGED <<capacity, ptr, heap, nalloc, released, out, halted, conc>>
    /\ calls' = calls + 1

\* line 347: mutex.unlock();
DtorUnlock(t) ==
    /\ Running
    /\ th[t].pc = "d_unlock"
    /\ mutex' = Unlocked
    /\ ub' = Fault(<<LockUb>>)
    /\ th' = [th EXCEPT ![t].pc = "d_check"]
    /\ UNCHANGED <<capacity, ptr, heap, nalloc, ref_counter, released, hd, out, halted, conc, calls>>

\* line 348: the test the destructor makes after it gave up the lock
ReleaseTest(h) == ref_counter = 0 /\ hd[h].ar

\* lines 348-357: the release branch, Allocator::release(*ptr, capacity);
\* Allocator::release(ptr, sizeof(char**)); delete &mutex; or nothing
DtorEnd(t) ==
    /\ Running
    /\ th[t].pc = "d_check"
    /\ IF ReleaseTest(th[t].h)
       THEN /\ released' = released + 1
            /\ heap' = [b \in DOMAIN heap \ {ptr} |-> heap[b]]
            /\ mutex' = -1
            /\ ub' = Fault(<<IF released > 0 \/ ptr \notin DOMAIN heap THEN "double_free" ELSE "none",
                              IF mutex > 0 THEN "delete_locked_mutex" ELSE "none">>)
       ELSE UNCHANGED <<released, heap, mutex, ub>>
    /\ hd' = [hd EXCEPT ![th[t].h].st = "dead"]
    /\ out' = Returned(th[t], "done", <<>>)
    /\ th' = [th EXCEPT ![t] = Idle]
    /\ UNCHANGED <<capacity, ptr, nalloc, ref_counter, halted, conc, calls>>

\* ------------------------------------------------------------------ growth
\* line 305: expand() grows only with both flags set
ExpandAllowed(h) == hd[h].ar /\ hd[h].ae

\* line 309: size_t new_capacity = capacity + single_expand_size;
NewCapacity(cap, ses) == Add(cap, ses)

\* the data memcpy(new_ptr, *ptr, cap) puts in a block of nc zero bytes
Prefix(old, cap, nc) == {p \in old.data : p[1] < cap /\ p[1] < nc}

\* bool expand(), called directly.  It takes no lock.  c0 and d0 keep the
\* capacity and the bytes the call found.
ExpandBegin(t, h) ==
    /\ Usable(t, h)
    /\ ~hd[h].view
    /\ LET call == [Idle EXCEPT !.op = "expand", !.h = h, !.c0 = capacity,
                                !.d0 = IF ptr \in DOMAIN heap THEN heap[ptr].data ELSE {}]
       IN  IF ExpandAllowed(h)
           THEN /\ th' = [th EXCEPT ![t] = [call EXCEPT !.pc = "e_alloc"]]
                /\ out' = out
           ELSE /\ th' = th
                /\ out' = Returned(call, "false", <<>>)
    /\ UNCHANGED <<capacity, ptr, heap, nalloc, ref_counter, mutex, released, hd, ub, halted, conc>>
    /\ calls' = calls + 1

\* lines 309-312: new_capacity, alloc, memset(new_ptr, 0, new_capacity),
\* memcpy(new_ptr, *ptr, capacity)
ExpandAlloc(t) ==
    /\ Running
    /\ th[t].pc = "e_alloc"
    /\ LET nc  == NewCapacity(capacity, hd[th[t].h].ses)
           nb  == nalloc + 1
           old == IF ptr \in DOMAIN heap THEN heap[ptr] ELSE ZeroBlock(0)
           new == [size |-> nc, data |-> Prefix(old, capacity, nc)]
       IN  /\ nalloc' = nb
           /\ heap' = [b \in DOMAIN heap \cup {nb} |-> IF b = nb THEN new ELSE heap[b]]
           /\ ub' = Fault(<<IF ptr \notin DOMAIN heap THEN "use_after_free" ELSE "none",
                             IF capacity > old.size THEN "read_overflow" ELSE "none",
                             IF capacity > nc THEN "heap_overflow" ELSE "none">>)
           /\ th' = [th EXCEPT ![t] = [@ EXCEPT !.pc = "e_release", !.nb = nb, !.nc = nc]]
    /\ UNCHANGED <<capacity, ptr, ref_counter, mutex, released, hd, out, halted, conc, calls>>

\* line 313: Allocator::release(*ptr, capacity);
ExpandRelease(t) ==
    /\ Running
    /\ th[t].pc = "e_release"
    /\ heap' = [b \in DOMAIN heap \ {ptr} |-> heap[b]]
    /\ ub' = Fault(<<IF ptr \notin DOMAIN heap THEN "double_free" ELSE "none">>)
    /\ th' = [th EXCEPT ![t].pc = "e_swap"]
    /\ UNCHANGED <<capacity, ptr, nalloc, ref_counter, mutex, released, hd, out, halted, conc, calls>>

\* line 314: *ptr = new_ptr;
ExpandSwap(t) ==
    /\ Running
    /\ th[t].pc = "e_swap"
    /\ ptr' = th[t].nb
    /\ th' = [th EXCEPT ![t].pc = "e_cap"]
    /\ UNCHANGED <<capacity, heap, nalloc, ref_counter, mutex, released, hd, out, ub, halted, conc, calls>>

\* lines 315-316: capacity = new_capacity; return true; back in write when
\* write made the call
ExpandEnd(t) ==
    /\ Running
    /\ th[t].pc = "e_cap"
    /\ capacity' = th[t].nc
    /\ IF th[t].op = "write"
       THEN /\ th' = [th EXCEPT ![t].pc = "w_copy"]
            /\ out' = out
       ELSE /\ th' = [th EXCEPT ![t] = Idle]
            /\ out' = Returned(th[t], "true", <<>>)
    /\ UNCHANGED <<ptr, heap, nalloc, ref_counter, mutex, released, hd, ub, halted, conc, calls>>

\* ------------------------------------------------------- default position
\* a read(dst, len) that moves the position only when the read succeeded
AdvancedOnSuccess(pos, len, r) == IF r THEN Add(pos, len) ELSE pos

\* lines 225 and 245: pos += len; after read or write returned r
Advanced(pos, len, r) == Add(pos, len)

\* ------------------------------------------------------------------- write
\* line 231: if (len + off > capacity)
WriteExceeds(len, off, cap) == Add(len, off) > cap

\* bool write(const char *src, size_t len, size_t off), lines 230-237:
\* mutex.lock(), the test, and the call of expand() or the throw, which
\* leaves the function with the lock held.  dflt: the call came from
\* write(src, len), with off = pos.
WriteBegin(t, h, len, off, v, dflt) ==
    /\ Usable(t, h)
    /\ ~hd[h].view
    /\ dflt => off = hd[h].pos
    /\ CanLock
    /\ mutex' = Locked(t)
    /\ ub' = Fault(<<LockUb>>)
    /\ LET call == [Idle EXCEPT !.op = "write", !.h = h, !.len = len, !.off = off,
                                !.v = v, !.dflt = dflt, !.c0 = capacity,
                                !.d0 = IF ptr \in DOMAIN heap THEN heap[ptr].data ELSE {}]
       IN  IF WriteExceeds(len, off, capacity)
           THEN IF hd[h].ae
                THEN /\ th' = [th EXCEPT ![t] = [call EXCEPT !.pc =
                                 IF ExpandAllowed(h) THEN "e_alloc" ELSE "w_copy"]]
                     /\ out' = out
                ELSE /\ th' = th
                     /\ out' = Returned(call, "throw", <<>>)
           ELSE /\ th' = [th EXCEPT ![t] = [call EXCEPT !.pc = "w_copy"]]
                /\ out' = out
    /\ UNCHANGED <<capacity, ptr, heap, nalloc, ref_counter, released, hd, halted, conc>>
    /\ calls' = calls + 1

\* the block after memcpy(*ptr + off, src, len)
Copied(b, off, src) == Store(b, off, src)

\* lines 238-240: memcpy(*ptr + off, src, len); mutex.unlock(); return true;
\* and line 245, pos += len, in write(src, len)
WriteCopy(t) ==
    /\ Running
    /\ th[t].pc = "w_copy"
    /\ LET c == th[t]
       IN  /\ heap' = IF ptr \in DOMAIN heap
                      THEN [heap EXCEPT ![ptr] = Copied(heap[ptr], c.off, Src(c.v, c.len))]
                      ELSE heap
           /\ ub' = Fault(<<IF ptr \notin DOMAIN heap THEN "use_after_free" ELSE "none",
                             IF ~InBlock(ptr, c.off, c.len) THEN "heap_overflow" ELSE "none",
                             LockUb>>)
           /\ mutex' = Unlocked
           /\ hd' = IF c.dflt THEN [hd EXCEPT ![c.h].pos = Advanced(@, c.len, TRUE)] ELSE hd
           /\ out' = Returned(c, "true", <<>>)
           /\ th' = [th EXCEPT ![t] = Idle]
    /\ UNCHANGED <<capacity, ptr, nalloc, ref_counter, released, halted, conc, calls>>

\* -------------------------------------------------------------------- read
\* a bounds test that also rejects the read that ends at the capacity
ReadRejectsAtEnd(len, off, cap) == Add(len, off) >= cap

\* line 214: if (len + off > capacity) return false;
ReadRejects(len, off, cap) == Add(len, off) > cap

\* bool read(char *dst, size_t len, size_t off), lines 214-216, without the
\* lock; dflt: the call came from read(dst, len), with off = pos, which
\* then adds len to pos whatever read returned
ReadBegin(t, h, len, off, dflt) ==
    /\ Usable(t, h)
    /\ ~hd[h].view
    /\ dflt => off = hd[h].pos
    /\ LET call == [Idle EXCEPT !.op = "read", !.h = h, !.len = len, !.off = off,
                                !.dflt = dflt, !.c0 = capacity]
       IN  IF ReadRejects(len, off, capacity)
           THEN /\ th' = th
                /\ out' = Returned(call, "false", <<>>)
                /\ hd' = IF dflt THEN [hd EXCEPT ![h].pos = Advanced(@, len, FALSE)] ELSE hd
           ELSE /\ th' = [th EXCEPT ![t] = [call EXCEPT !.pc = "r_lock"]]
                /\ out' = out
                /\ hd' = hd
    /\ UNCHANGED <<capacity, ptr, heap, nalloc, ref_counter, mutex, released, ub, halted, conc>>
    /\ calls' = calls + 1

\* line 217: mutex.lock();
ReadLock(t) ==
    /\ Running
    /\ th[t].pc = "r_lock"
    /\ CanLock
    /\ mutex' = Locked(t)
    /\ ub' = Fault(<<LockUb>>)
    /\ th' = [th EXCEPT ![t].pc = "r_copy"]
    /\ UNCHANGED <<capacity, ptr, heap, nalloc, ref_counter, released, hd, out, halted, conc, calls>>

\* lines 218-220: memcpy(dst, *ptr + off, len); mutex.unlock(); return true;
\* and line 225, pos += len, in read(dst, len).  Bytes read outside a live
\* block have any value g.
ReadCopy(t) ==
    /\ Running
    /\ th[t].pc = "r_copy"
    /\ LET c  == th[t]
           ok == InBlock(ptr, c.off, c.len)
       IN  /\ \E g \in IF ok THEN {0} ELSE {0} \cup ValsIn :
                 out' = Returned(c, "true", IF ok THEN Bytes(heap[ptr], c.off, c.len)
                                            ELSE [i \in 1 .. c.len |-> g])
           /\ ub' = Fault(<<IF ptr \notin DOMAIN heap THEN "use_after_free" ELSE "none",
                             IF ~ok THEN "read_overflow" ELSE "none",
                             LockUb>>)
           /\ mutex' = Unlocked
           /\ hd' = IF c.dflt THEN [hd EXCEPT ![c.h].pos = Advanced(@, c.len, TRUE)] ELSE hd
           /\ th' = [th EXCEPT ![t] = Idle]
    /\ UNCHANGED <<capacity, ptr, heap, nalloc, ref_counter, released, halted, conc, calls>>

\* ------------------------------------------------------ handle-local fields
\* void auto_expand_size(size_t size)
SetExpandSize(t, h, n) ==
    /\ Usable(t, h)
    /\ ~hd[h].view
    /\ hd' = [hd EXCEPT ![h].ses = n]
    /\ out' = Returned([Idle EXCEPT !.op = "auto_expand_size", !.h = h, !.len = n], "done", <<>>)
    /\ UNCHANGED <<capacity, ptr, heap, nalloc, ref_counter, mutex, released, th, ub, halted, conc>>
    /\ calls' = calls + 1

\* void position(size_t position); rewind() is position(0)
SetPosition(t, h, n) ==
    /\ Usable(t, h)
    /\ ~hd[h].view
    /\ hd' = [hd EXCEPT ![h].pos = n]
    /\ out' = Returned([Idle EXCEPT !.op = "position", !.h = h, !.off = n], "done", <<>>)
    /\ UNCHANGED <<capacity, ptr, heap, nalloc, ref_counter, mutex, released, th, ub, halted, conc>>
    /\ calls' = calls + 1

\* ------------------------------------------------------------------- views
\* The member functions of mem_stream, each as one step of a client with one
\* thread.  A view is the handle record of its buffer copy, with the view's
\* own pos in vpos.

\* lines 61-63 and 116-118: if (pos >= buffer.capacity) eof_bit = true;
MarkedAtEnd(pos, bit, cap) == IF pos >= cap THEN TRUE ELSE bit

\* lines 99-101 and 106-108: if (pos < buffer.capacity) eof_bit = false;
ClearedBelowEnd(pos, bit, cap) == IF pos < cap THEN FALSE ELSE bit

\* bool get(T& t), lines 56-65, on the view fields w: r, the new pos and
\* the new eof_bit
Got(w, cap) ==
    LET r == ~ReadRejects(w.step, w.vpos, cap)
        p == IF r THEN Add(w.vpos, w.step) ELSE w.vpos
    IN  [r |-> r, vpos |-> p, eof_bit |-> MarkedAtEnd(p, w.eof_bit, cap)]

\* void forward(size_t len), lines 118-123
Forwarded(w, len, cap) ==
    LET p == Add(w.vpos, Mul(w.step, len))
    IN  [vpos |-> p, eof_bit |-> MarkedAtEnd(p, w.eof_bit, cap)]

\* void back(size_t len), lines 104-109
Backed(w, len, cap) ==
    LET p == Sub(w.vpos, Mul(w.step, len))
    IN  [vpos |-> p, eof_bit |-> ClearedBelowEnd(p, w.eof_bit, cap)]

\* T peek(), lines 73-77: T t = get(); pos--;
Peeked(w, cap) ==
    LET g == Got(w, cap)
    IN  [r |-> g.r, vpos |-> Sub(g.vpos, 1), eof_bit |-> g.eof_bit]

\* T peek(size_t len), lines 79-84: forward(len - 1); T t = get(); back(len);
PeekedAhead(w, len, cap) ==
    LET f == Forwarded(w, Sub(len, 1), cap)
        g == Got([w EXCEPT !.vpos = f.vpos, !.eof_bit = f.eof_bit], cap)
        b == Backed([w EXCEPT !.vpos = g.vpos, !.eof_bit = g.eof_bit], len, cap)
    IN  [r |-> g.r, at |-> f.vpos, vpos |-> b.vpos, eof_bit |-> b.eof_bit]

\* bool eof(size_t s), lines 133-138: if (pos + s >= buffer.capacity)
EofAhead(w, s, cap) == Add(w.vpos, s) >= cap

\* a live view that the client's thread t can call
ViewUsable(t, h) == Usable(t, h) /\ hd[h].view

\* the call of a view's member function, as `out` keeps it
ViewCall(op, h, len) == [Idle EXCEPT !.op = op, !.h = h, !.len = len, !.off = hd[h].vpos,
                                     !.c0 = capacity,
                                     !.d0 = IF ptr \in DOMAIN heap THEN heap[ptr].data ELSE {}]

\* buffer.read(&t, step, off) inside get: what the step leaves in mutex,
\* ub and the element read.  r: the read was accepted.
ViewRead(t, h, op, len, r, off, res) ==
    LET ok == InBlock(ptr, off, hd[h].step)
    IN  /\ r => CanLock
        /\ mutex' = IF r THEN Unlocked ELSE mutex
        /\ ub' = IF r THEN Fault(<<LockUb,
                                   IF ptr \notin DOMAIN heap THEN "use_after_free" ELSE "none",
                                   IF ~ok THEN "read_overflow" ELSE "none">>)
                      ELSE ub
        /\ \E g \in IF r /\ ~ok THEN {0} \cup ValsIn ELSE {0} :
              out' = Returned(ViewCall(op, h, len), res,
                              IF ~r THEN <<>>
                              ELSE IF ok THEN Bytes(heap[ptr], off, hd[h].step)
                              ELSE [i \in 1 .. hd[h].step |-> g])
        /\ calls' = calls + 1
        /\ UNCHANGED <<capacity, ptr, heap, nalloc, ref_counter, released, th, halted, conc>>

\* bool get(T& t)
ViewGet(t, h) ==
    /\ ViewUsable(t, h)
    /\ LET g == Got(hd[h], capacity)
       IN  /\ ViewRead(t, h, "get", 0, g.r, hd[h].vpos, IF g.r THEN "true" ELSE "false")
           /\ hd' = [hd EXCEPT ![h].vpos = g.vpos, ![h].eof_bit = g.eof_bit]

\* T peek()
ViewPeek(t, h) ==
    /\ ViewUsable(t, h)
    /\ LET g == Peeked(hd[h], capacity)
       IN  /\ ViewRead(t, h, "peek", 0, g.r, hd[h].vpos, IF g.r THEN "true" ELSE "false")
           /\ hd' = [hd EXCEPT ![h].vpos = g.vpos, ![h].eof_bit = g.eof_bit]

\* T peek(size_t len)
ViewPeekAhead(t, h, len) ==
    /\ ViewUsable(t, h)
    /\ LET g == PeekedAhead(hd[h], len, capacity)
       IN  /\ ViewRead(t, h, "peek_len", len, g.r, g.at, IF g.r THEN "true" ELSE "false")
           /\ hd' = [hd EXCEPT ![h].vpos = g.vpos, ![h].eof_bit = g.eof_bit]

\* bool put(T const& t), lines 86-90: buffer.write(&t, step, pos), with the
\* growth write makes, then pos += step
ViewPut(t, h, v) ==
    /\ ViewUsable(t, h)
    /\ CanLock
    /\ LET w       == hd[h]
           exceeds == WriteExceeds(w.step, w.vpos, capacity)
           grows   == exceeds /\ ExpandAllowed(h)
           nc      == IF grows THEN NewCapacity(capacity, w.ses) ELSE capacity
           nb      == IF grows THEN nalloc + 1 ELSE ptr
           old     == IF ptr \in DOMAIN heap THEN heap[ptr] ELSE ZeroBlock(0)
           blk     == IF grows THEN [size |-> nc, data |-> Prefix(old, capacity, nc)] ELSE old
           call    == [ViewCall("put", h, 0) EXCEPT !.v = v]
       IN  IF exceeds /\ ~w.ae
           THEN /\ mutex' = Locked(t)
                /\ ub' = Fault(<<LockUb>>)
                /\ out' = Returned(call, "throw", <<>>)
                /\ UNCHANGED <<capacity, ptr, heap, nalloc, hd>>
           ELSE /\ capacity' = nc
                /\ ptr' = nb
                /\ nalloc' = IF grows THEN nb ELSE nalloc
                /\ heap' = [b \in (DOMAIN heap \ (IF grows THEN {ptr} ELSE {})) \cup
                                  (IF ptr \in DOMAIN heap \/ grows THEN {nb} ELSE {}) |->
                              IF b = nb THEN Copied(blk, w.vpos, Src(v, w.step)) ELSE heap[b]]
                /\ ub' = Fault(<<LockUb,
                                  IF ptr \notin DOMAIN heap THEN "use_after_free" ELSE "none",
                                  IF grows /\ capacity > nc THEN "heap_overflow" ELSE "none",
                                  IF w.vpos + w.step > blk.size THEN "heap_overflow" ELSE "none">>)
                /\ mutex' = Unlocked
                /\ hd' = [hd EXCEPT ![h].vpos = Add(w.vpos, w.step)]
                /\ out' = Returned(call, "true", <<>>)
    /\ calls' = calls + 1
    /\ UNCHANGED <<ref_counter, released, th, halted, conc>>

\* what the member functions that touch only the view's own fields leave alone
ViewOnly == UNCHANGED <<capacity, ptr, heap, nalloc, ref_counter, mutex, released, th, ub, halted, conc>>

\* void reset(), lines 92-95
ViewReset(t, h) ==
    /\ ViewUsable(t, h)
    /\ hd' = [hd EXCEPT ![h].vpos = 0, ![h].eof_bit = FALSE]
    /\ out' = Returned(ViewCall("reset", h, 0), "done", <<>>)
    /\ calls' = calls + 1
    /\ ViewOnly

\* void back(), lines 97-102: pos -= step
ViewBack(t, h) ==
    /\ ViewUsable(t, h)
    /\ LET b == Backed(hd[h], 1, capacity)
       IN  hd' = [hd EXCEPT ![h].vpos = b.vpos, ![h].eof_bit = b.eof_bit]
    /\ out' = Returned(ViewCall("back", h, 1), "done", <<>>)
    /\ calls' = calls + 1
    /\ ViewOnly

\* void back(size_t len)
ViewBackBy(t, h, len) ==
    /\ ViewUsable(t, h)
    /\ LET b == Backed(hd[h], len, capacity)
       IN  hd' = [hd EXCEPT ![h].vpos = b.vpos, ![h].eof_bit = b.eof_bit]
    /\ out' = Returned(ViewCall("back_len", h, len), "done", <<>>)
    /\ calls' = calls + 1
    /\ ViewOnly

\* void forward(), lines 111-116: pos += step
ViewForward(t, h) ==
    /\ ViewUsable(t, h)
    /\ LET f == Forwarded(hd[h], 1, capacity)
       IN  hd' = [hd EXCEPT ![h].vpos = f.vpos, ![h].eof_bit = f.eof_bit]
    /\ out' = Returned(ViewCall("forward", h, 1), "done", <<>>)
    /\ calls' = calls + 1
    /\ ViewOnly

\* void forward(size_t len)
ViewForwardBy(t, h, len) ==
    /\ ViewUsable(t, h)
    /\ LET f == Forwarded(hd[h], len, capacity)
       IN  hd' = [hd EXCEPT ![h].vpos = f.vpos, ![h].eof_bit = f.eof_bit]
    /\ out' = Returned(ViewCall("forward_len", h, len), "done", <<>>)
    /\ calls' = calls + 1
    /\ ViewOnly

\* bool eof() const, lines 129-131
ViewEof(t, h) ==
    /\ ViewUsable(t, h)
    /\ out' = Returned(ViewCall("eof", h, 0), IF hd[h].eof_bit THEN "true" ELSE "false", <<>>)
    /\ calls' = calls + 1
    /\ hd' = hd
    /\ ViewOnly

\* bool eof(size_t s)
ViewEofAhead(t, h, s) ==
    /\ ViewUsable(t, h)
    /\ out' = Returned(ViewCall("eof_len", h, s),
                       IF EofAhead(hd[h], s, capacity) THEN "true" ELSE "false", <<>>)
    /\ calls' = calls + 1
    /\ hd' = hd
    /\ ViewOnly

\* after undefined behaviour the process may crash at any moment
Crash ==
    /\ Running
    /\ ub # "none"
    /\ halted' = TRUE
    /\ UNCHANGED <<capacity, ptr, heap, nalloc, ref_counter, mutex, released, hd, th, out, ub, conc, calls>>

Next ==
    \/ \E t \in Threads, h \in Handles, n \in Handles, w \in {0} \cup StepsIn : CopyBegin(t, h, n, w)
    \/ \E t \in Threads : CopyEnd(t)
    \/ \E t \in Threads, h \in Handles : DtorBegin(t, h)
    \/ \E t \in Threads : DtorUnlock(t)
    \/ \E t \in Threads : DtorEnd(t)
    \/ \E t \in Threads, h \in Handles : ExpandBegin(t, h)
    \/ \E t \in Threads : ExpandAlloc(t)
    \/ \E t \in Threads : ExpandRelease(t)
    \/ \E t \in Threads : ExpandSwap(t)
    \/ \E t \in Threads : ExpandEnd(t)
    \/ \E t \in Threads, h \in Handles, len \in LensIn, off \in OffsIn, v \in ValsIn, dflt \in DfltIn :
          WriteBegin(t, h, len, IF dflt THEN hd[h].pos ELSE off, v, dflt)
    \/ \E t \in Threads : WriteCopy(t)
    \/ \E t \in Threads, h \in Handles, len \in LensIn, off \in OffsIn, dflt \in DfltIn :
          ReadBegin(t, h, len, IF dflt THEN hd[h].pos ELSE off, dflt)
    \/ Crash
    \/ \E t \in Threads : ReadLock(t)
    \/ \E t \in Threads : ReadCopy(t)
    \/ \E t \in Threads, h \in Handles, n \in IncsIn : SetExpandSize(t, h, n)
    \/ \E t \in Threads, h \in Handles, n \in OffsIn : SetPosition(t, h, n)

\* the client that, besides copying handles and setting their position and
\* growth increment, only calls write(src, len)
NextWriters ==
    \/ \E t \in Threads, h \in Handles, n \in Handles : CopyBegin(t, h, n, 0)
    \/ \E t \in Threads : CopyEnd(t)
    \/ \E t \in Threads, h \in Handles, n \in IncsIn : SetExpandSize(t, h, n)
    \/ \E t \in Threads, h \in Handles, n \in OffsIn : SetPosition(t, h, n)
    \/ \E t \in Threads, h \in Handles, len \in LensIn, v \in ValsIn :
          WriteBegin(t, h, len, hd[h].pos, v, TRUE)
    \/ \E t \in Threads : ExpandAlloc(t)
    \/ \E t \in Threads : ExpandRelease(t)
    \/ \E t \in Threads : ExpandSwap(t)
    \/ \E t \in Threads : ExpandEnd(t)
    \/ \E t \in Threads : WriteCopy(t)
    \/ Crash

\* the client with one thread that builds views and copies, calls the views'
\* member functions, and moves, reads and writes through the handles at
\* their default positions
NextViews ==
    \/ \E t \in Threads, h \in Handles, n \in Handles, w \in {0} \cup StepsIn : CopyBegin(t, h, n, w)
    \/ \E t \in Threads : CopyEnd(t)
    \/ \E t \in Threads, h \in Handles : ViewGet(t, h)
    \/ \E t \in Threads, h \in Handles : ViewPeek(t, h)
    \/ \E t \in Threads, h \in Handles, len \in ViewLens : ViewPeekAhead(t, h, len)
    \/ \E t \in Threads, h \in Handles, v \in ValsIn : ViewPut(t, h, v)
    \/ \E t \in Threads, h \in Handles : ViewReset(t, h)
    \/ \E t \in Threads, h \in Handles : ViewBack(t, h)
    \/ \E t \in Threads, h \in Handles, len \in ViewLens : ViewBackBy(t, h, len)
    \/ \E t \in Threads, h \in Handles : ViewForward(t, h)
    \/ \E t \in Threads, h \in Handles, len \in ViewLens : ViewForwardBy(t, h, len)
    \/ \E t \in Threads, h \in Handles : ViewEof(t, h)
    \/ \E t \in Threads, h \in Handles, s \in ViewLens : ViewEofAhead(t, h, s)
    \/ \E t \in Threads, h \in Handles, n \in OffsIn : SetPosition(t, h, n)
    \/ \E t \in Threads, h \in Handles, len \in LensIn, v \in ValsIn :
          WriteBegin(t, h, len, hd[h].pos, v, TRUE)
    \/ \E t \in Threads : ExpandAlloc(t)
    \/ \E t \in Threads : ExpandRelease(t)
    \/ \E t \in Threads : ExpandSwap(t)
    \/ \E t \in Threads : ExpandEnd(t)
    \/ \E t \in Threads : WriteCopy(t)
    \/ \E t \in Threads, h \in Handles, len \in LensIn : ReadBegin(t, h, len, hd[h].pos, TRUE)
    \/ \E t \in Threads : ReadLock(t)
    \/ \E t \in Threads : ReadCopy(t)
    \/ Crash

\* one client thread
Spec == Init /\ [][Next]_vars
\* two client threads
SpecConc == InitConc /\ [][Next]_vars
\* two client threads that write at their default positions
SpecWriters == InitConc /\ [][NextWriters]_vars
\* one client thread that uses views
SpecViews == Init /\ [][NextViews]_vars

\* ------------------------------------------------------------------ claims
\* the handles that count: constructed, and their destructor not yet called
Live == {h \in Handles : hd[h].st = "live"}
\* thread t returns from the call it is in
Returns(t, op) == th[t].op = op /\ th[t].pc # "idle" /\ th'[t].pc = "idle"
\* thread t enters a call
Enters(t, op) == th[t].pc = "idle" /\ calls' = calls + 1 /\ th'[t].op = op
\* a call of op returned in the step that entered it
ReturnsAtOnce(op) == calls' = calls + 1 /\ th' = th /\ out'.op = op

\* C1: over the handles of one cell, copied and destroyed by concurrent
\* threads, the cell's storage, indirection cell and lock are released
\* exactly once: never while a live handle remains, never a second time,
\* and they are released once the last handle is destroyed.
C1_ReleasedExactlyOnce ==
    /\ released <= 1
    /\ released >= 1 => \A h \in Handles : hd[h].st \notin {"live", "cons"}
    /\ (\A h \in Handles : hd[h].st \in {"none", "dead"}) => released = 1

\* C2: a write(src, len, offset) with offset + len > capacity on a handle
\* with auto_expand grows the cell before it copies, so that when it returns
\* true offset + len <= capacity, the len bytes lie inside the storage and
\* are what a read at (offset, len) finds, and the bytes written before are
\* unchanged.  Stated for the sums offset + len that size_t can hold.
C2_GrowthBeforeCopy ==
    [][\A t \in Threads :
          (/\ Returns(t, "write") /\ hd[th[t].h].ae
           /\ th[t].off + th[t].len > th[t].c0 /\ th[t].off + th[t].len <= SizeMax)
          => /\ out'.ret = "true"
             /\ th[t].off + th[t].len <= capacity'
             /\ ptr' \in DOMAIN heap'
             /\ th[t].off + th[t].len <= heap'[ptr'].size
             /\ Bytes(heap'[ptr'], th[t].off, th[t].len) = Src(th[t].v, th[t].len)
             /\ \A p \in th[t].d0 :
                   (p[1] < th[t].off \/ p[1] >= th[t].off + th[t].len)
                   => Byte(heap'[ptr'], p[1]) = p[2]]_vars

\* C3: a thread that changes the cell's block pointer, storage or capacity in
\* write, in the growth write calls, or in expand() holds the cell's lock;
\* no read or write uses a released block or a capacity that is not the
\* size of the block.
C3_MutationUnderLock ==
    /\ \A t \in Threads : th[t].pc \in {"e_release", "e_swap", "e_cap", "w_copy"} => mutex = t
    /\ \A t \in Threads : th[t].pc \in {"r_copy", "w_copy"}
                          => ptr \in DOMAIN heap /\ heap[ptr].size = capacity
    /\ ub # "use_after_free"

\* C4: ref_counter is the number of live handles, a view's buffer copy
\* counting as one handle; it is 1 after the construction and never negative.
C4_RefCountIsLiveHandles ==
    /\ ref_counter = Cardinality(Live)
    /\ ref_counter >= 0
    /\ calls = 0 => ref_counter = 1

\* C4, its case: a buffer copy and a view are live, another handle has been
\* destroyed, and the count is 2.
C4_Witness ==
    /\ \E h \in Live : hd[h].view
    /\ \E h \in Handles : hd[h].st = "dead"
    /\ ref_counter = 2

\* C5: with offset + len <= capacity, write(src, len, offset) followed by
\* read(dst, len, offset) on any handle of the cell returns true and yields
\* the written bytes; the write leaves the bytes outside
\* [offset, offset + len), the capacity and the size of the block unchanged.
C5_WriteReadRoundTrip ==
    [][/\ \A t \in Threads :
             (Returns(t, "write") /\ th[t].off + th[t].len <= th[t].c0)
             => /\ out'.ret = "true"
                /\ capacity' = th[t].c0
                /\ heap'[ptr'].size = th[t].c0
                /\ {p \in heap'[ptr'].data : p[1] < th[t].off \/ p[1] >= th[t].off + th[t].len}
                   = {p \in th[t].d0 : p[1] < th[t].off \/ p[1] >= th[t].off + th[t].len}
       /\ (/\ out.op = "write" /\ out.ret = "true" /\ out.off + out.len <= out.c0
           /\ out'.op = "read" /\ out'.off = out.off /\ out'.len = out.len)
          => out'.ret = "true" /\ out'.dst = Src(out.v, out.len)]_vars

\* C5, its case: a read that ends at the capacity has returned the bytes a
\* write put there.
C5_Witness ==
    /\ out.op = "read" /\ out.ret = "true"
    /\ out.off + out.len = capacity
    /\ out.dst = Src(1, out.len)
    /\ ub = "none"

\* C6: read(dst, len, offset) with offset + len > capacity returns false,
\* copies nothing, leaves storage and capacity unchanged and does not take
\* the lock.
C6_ReadPastCapacityRejected ==
    [][\A t \in Threads, len \in Lens, off \in Offs :
          (/\ th[t].pc = "idle" /\ calls' = calls + 1 /\ off + len > capacity
           /\ \/ (th'[t].op = "read" /\ th'[t].len = len /\ th'[t].off = off)
              \/ (th' = th /\ out'.op = "read" /\ out'.len = len /\ out'.off = off))
          => /\ th' = th
             /\ out'.ret = "false" /\ out'.dst = <<>>
             /\ UNCHANGED <<heap, ptr, capacity, mutex>>]_vars

\* C7: an expand() that returns true has grown the cell by the handle's
\* growth increment: the capacity is the old capacity plus the increment,
\* the old bytes are unchanged and the added bytes are zero.
C7_ExpandGrowsByIncrement ==
    [][\A t \in Threads :
          Returns(t, "expand")
          => /\ capacity' = th[t].c0 + hd[th[t].h].ses
             /\ ptr' \in DOMAIN heap'
             /\ heap'[ptr'].size = capacity'
             /\ heap'[ptr'].data = th[t].d0]_vars

\* C8: two threads write through two handles of one cell, each at its
\* default position and over ranges the other does not write.  When a write
\* returns after a write through the other handle has returned, the storage
\* holds the bytes of both, whether or not a write grew the cell.
C8_DisjointWritesKept ==
    [][\A t \in Threads :
          (/\ Returns(t, "write") /\ th[t].dflt
           /\ out.op = "write" /\ out.dflt /\ out.ret = "true" /\ out.h # th[t].h
           /\ (out.off + out.len <= th[t].off \/ th[t].off + th[t].len <= out.off))
          => /\ ptr' \in DOMAIN heap'
             /\ heap'[ptr'].size = capacity'
             /\ th[t].off + th[t].len <= capacity'
             /\ Bytes(heap'[ptr'], th[t].off, th[t].len) = Src(th[t].v, th[t].len)
             /\ Bytes(heap'[ptr'], out.off, out.len) = Src(out.v, out.len)]_vars

\* C9: a copy (the copy inside a view too) starts with the growth increment
\* and the two flags of its source; auto_expand_size(n) on one handle
\* leaves the growth increment of the others alone.
C9_CopyTakesPolicy ==
    [][/\ \A t \in Threads :
             Returns(t, "copy")
             => /\ hd'[th[t].n].ses = hd[th[t].h].ses
                /\ hd'[th[t].n].ae = hd[th[t].h].ae
                /\ hd'[th[t].n].ar = hd[th[t].h].ar
       /\ ReturnsAtOnce("auto_expand_size")
          => \A h \in Handles : h # out'.h => hd'[h].ses = hd[h].ses]_vars

\* the view whose member function returned in the step, and the step's kind
ViewReturns(ops) == \E op \in ops : ReturnsAtOnce(op)
\* in the integers: the sums and differences size_t cannot hold are excluded
NoWrap(h, op, len) ==
    /\ op \in {"back", "back_len"} => hd[h].step * len <= hd[h].vpos
    /\ op \in {"forward", "forward_len"} => hd[h].vpos + hd[h].step * len <= SizeMax
    /\ op \in {"get", "put"} => hd[h].vpos + hd[h].step <= SizeMax

\* C11: after a get, put, forward, back or reset of a view whose end marker
\* agreed with its position, eof() is true exactly when the view's byte
\* position is >= the capacity.  Stated for the moves that do not wrap.
C11_EofIsAtEnd ==
    [][ViewReturns({"get", "put", "forward", "forward_len", "back", "back_len", "reset"})
       => LET h == out'.h
          IN  (/\ NoWrap(h, out'.op, out'.len)
               /\ hd[h].eof_bit <=> hd[h].vpos >= capacity)
              => (hd'[h].eof_bit <=> hd'[h].vpos >= capacity')]_vars

\* C12: peek() leaves the view's position where it was, for every element
\* width and every position, whether or not the get inside it fails.
C12_PeekKeepsPosition ==
    [][ReturnsAtOnce("peek") => hd'[out'.h].vpos = hd[out'.h].vpos]_vars

\* C13: peek(len) leaves the view's position where it was, for every
\* len >= 1 and every position, also when the element len ahead lies past
\* the capacity and the read fails.
C13_PeekAheadKeepsPosition ==
    [][ReturnsAtOnce("peek_len") => hd'[out'.h].vpos = hd[out'.h].vpos]_vars

\* C14: read(dst, len) and write(src, len) leave the handle's position at
\* the position they found plus len (in size_t), whether the read succeeded
\* or failed; read and write with an offset, and the steps inside a call,
\* leave the position alone.
C14_DefaultCallsAdvance ==
    [][/\ \A t \in Threads :
             (Returns(t, "read") \/ Returns(t, "write"))
             => hd'[th[t].h].pos = IF th[t].dflt THEN Add(th[t].off, th[t].len) ELSE hd[th[t].h].pos
       /\ ReturnsAtOnce("read")
          => /\ out'.ret = "false"
             /\ hd'[out'.h].pos = IF out'.dflt THEN Add(out'.off, out'.len) ELSE hd[out'.h].pos
       /\ \A t \in Threads :
             (th'[t].op \in {"read", "write"} /\ th'[t].pc # "idle")
             => /\ hd'[th'[t].h].pos = hd[th'[t].h].pos
                /\ th'[t].dflt => th'[t].off = hd[th'[t].h].pos]_vars

\* C14, its case: a read(dst, len) that was rejected has moved the position
\* by len.
C14_Witness ==
    /\ out.op = "read" /\ out.dflt /\ out.ret = "false"
    /\ out.off + out.len > capacity
    /\ hd[out.h].pos = out.off + out.len

\* the member functions of a view that move it
ViewMoves == {"get", "peek", "peek_len", "put", "reset", "back", "back_len", "forward", "forward_len"}

\* C15: a step changes the position of a view only when it is a member
\* function of that view, and the position of a handle (the handle a view
\* was built from, a view's own buffer copy, any other handle) only when it
\* is a read(dst, len), write(src, len) or position(n) of that handle.  A
\* copy starts at the position of its source; a new view starts at 0.
C15_CursorsIndependent ==
    [][/\ \A k \in Handles :
             (hd[k].st = "live" /\ hd'[k].st = "live")
             => /\ hd'[k].vpos # hd[k].vpos => (ViewReturns(ViewMoves) /\ out'.h = k)
                /\ hd'[k].pos # hd[k].pos
                   => \/ \E t \in Threads : /\ Returns(t, "read") \/ Returns(t, "write")
                                            /\ th[t].h = k /\ th[t].dflt
                      \/ (ReturnsAtOnce("read") \/ ReturnsAtOnce("position")) /\ out'.h = k
       /\ \A t \in Threads :
             Returns(t, "copy")
             => /\ hd'[th[t].n].pos = hd[th[t].h].pos
                /\ hd'[th[t].h].pos = hd[th[t].h].pos
                /\ hd'[th[t].n].view => hd'[th[t].n].vpos = 0]_vars

\* C15, its case: two views over one cell, one of them moved by a get, the
\* other still where it started.
C15_Witness ==
    /\ out.op = "get" /\ out.ret = "true"
    /\ \E h \in Live, k \in Live :
          /\ h # k /\ hd[h].view /\ hd[k].view
          /\ out.h = h /\ hd[h].vpos = hd[h].step /\ hd[k].vpos = 0

\* C16: eof(n) returns true exactly when the view's byte position plus n
\* elements, n * step bytes, is >= the capacity; it changes neither the end
\* marker nor the position.
C16_EofLooksAheadInElements ==
    [][ReturnsAtOnce("eof_len")
       => /\ (out'.ret = "true") <=> (hd[out'.h].vpos + out'.len * hd[out'.h].step >= capacity)
          /\ hd' = hd]_vars

\* C17: no step makes the capacity smaller, and the capacity changes only in
\* the step of a growth that stores the new capacity.
C17_CapacityOnlyGrows ==
    [][/\ capacity' >= capacity
       /\ capacity' # capacity
          => \/ \E t \in Threads : th[t].pc = "e_cap" /\ th'[t].pc # "e_cap"
             \/ ReturnsAtOnce("put")]_vars

\* C19: when a view's get returns false, eof() is true afterwards, for every
\* element width and every capacity.
C19_FailedGetMarksEnd ==
    [][(ReturnsAtOnce("get") /\ out'.ret = "false") => hd'[out'.h].eof_bit]_vars

\* C20: a get that returns true has copied its element from the storage
\* offsets [0, capacity): the view's position plus the element width, as
\* integers, is <= the capacity.
C20_GetReadsInsideStorage ==
    [][(ReturnsAtOnce("get") /\ out'.ret = "true")
       => /\ hd[out'.h].vpos + hd[out'.h].step <= capacity
          /\ ub' = ub]_vars

\* thread t is between the mutex.lock() and the mutex.unlock() of a copy, a
\* destruction, a read or a write
InLockedRegion(t) ==
    \/ th[t].pc \in {"c_inc", "d_unlock", "r_copy", "w_copy"}
    \/ th[t].op = "write" /\ th[t].pc \in {"e_alloc", "e_release", "e_swap", "e_cap"}

\* C18: while the cell exists and no call is in progress on any thread, its
\* lock is free; a thread inside the locked region of a copy, destruction,
\* read or write holds the lock, so that its unlock() frees the lock for
\* the next call.
C18_LockFreeWhenIdle ==
    /\ ((\A t \in Threads : th[t].pc = "idle") /\ released = 0) => mutex = 0
    /\ \A t \in Threads : InLockedRegion(t) => mutex = t

====
